---- MODULE Spec2Model ----
(***************************************************************************)
(* Invoice PDF generator (src/main.py): the layout function                *)
(* create_invoice_pdf, its helper draw_logo, the request model             *)
(* InvoiceRequestData and the two endpoints /generate-pdf and /view-pdf.   *)
(*                                                                         *)
(* Conventions of the model                                                *)
(*  - a Python str is a sequence of one-character strings;                 *)
(*  - a Python float is an exact decimal, held as an integer number of     *)
(*    1/10000 ("ticks"); the inputs are bounded so that every product the  *)
(*    code forms is exact in ticks;                                        *)
(*  - a length on the page is an integer number of 1/1000 inch;            *)
(*  - a Python dict is a TLA+ function from key strings to values.         *)
(***************************************************************************)
EXTENDS Integers, Sequences, FiniteSets, TLC

VARIABLES
    today,      \* the date datetime.date.today() returns (a day counter)
    assets,     \* the three image files on disk: "present", "absent" or "corrupt"
    metric,     \* the paragraph and table heights the canvas measures
    inflight,   \* request id -> the request an endpoint is about to handle
    responses,  \* request id -> the response the caller received
    call,       \* the dict last passed to create_invoice_pdf by a direct caller
    out,        \* what that call produced
    prevOut,    \* what the previous call with the same dict produced
    canvas      \* the canvas and the cursors of a call that is under way

vars == <<today, assets, metric, inflight, responses, call, out, prevOut, canvas>>

-----------------------------------------------------------------------------
(* Bounds of the model *)

MaxReq == 2        \* request slots that can be in flight together
MaxDay == 1        \* today ranges over 0..MaxDay
MaxItems == 2      \* longest item list of a direct call
MaxNoLen == 2      \* longest generated invoice number

-----------------------------------------------------------------------------
(* Python values *)

\* None, kept distinguishable from every str (a str holds one-character entries)
None == <<"NoneType">>

Ticks == 100 * 100

\* a float with the whole value n
Whole(n) == n * Ticks

\* a float given in hundredths
Cents(n) == n * 100

\* dict.get(key, default): the default only when the key is absent
Get(d, k, default) == IF k \in DOMAIN d THEN d[k] ELSE default

\* truth value of a str or None
Truthy(v) == v # None /\ v # <<>>

Min(a, b) == IF a <= b THEN a ELSE b
Max(a, b) == IF a >= b THEN a ELSE b
Abs(a) == IF a < 0 THEN -a ELSE a

\* Python's `a in b` on two str
IsSubstring(a, b) ==
    \E i \in 0..(Len(b) - Len(a)) : SubSeq(b, i + 1, i + Len(a)) = a

\* str.split('\n')
RECURSIVE SplitLines(_)
SplitLines(s) ==
    IF \E i \in 1..Len(s) : s[i] = "\n"
    THEN LET i == CHOOSE j \in 1..Len(s) :
                      s[j] = "\n" /\ \A k \in 1..(j - 1) : s[k] # "\n"
         IN  <<SubSeq(s, 1, i - 1)>> \o SplitLines(SubSeq(s, i + 1, Len(s)))
    ELSE <<s>>

Digit(n) == <<"0", "1", "2", "3", "4", "5", "6", "7", "8", "9">>[n + 1]

\* decimal digits of a natural number
RECURSIVE IntDigits(_)
IntDigits(n) == IF n < 10 THEN <<Digit(n)>>
                ELSE IntDigits(n \div 10) \o <<Digit(n % 10)>>

\* the ',' grouping of the format specification: a comma before each group of three
RECURSIVE Grouped(_)
Grouped(n) == IF n < 1000 THEN IntDigits(n)
              ELSE Grouped(n \div 1000) \o <<",">>
                   \o <<Digit((n \div 100) % 10), Digit((n \div 10) % 10), Digit(n % 10)>>

\* round a non-negative tick count to hundredths, ties to even
RoundCents(m) ==
    LET q == m \div 100
        r == m % 100
    IN  IF r > 50 \/ (r = 50 /\ q % 2 = 1) THEN q + 1 ELSE q

\* f"{x:,.2f}"
FormatMoney(x) ==
    LET c == RoundCents(Abs(x))
    IN  (IF x < 0 THEN <<"-">> ELSE <<>>)
        \o Grouped(c \div 100) \o <<".">> \o <<Digit((c \div 10) % 10), Digit(c % 10)>>

\* f as exactly `width` decimal digits
RECURSIVE PadDigits(_, _)
PadDigits(f, width) ==
    IF width = 1 THEN <<Digit(f % 10)>>
    ELSE PadDigits(f \div 10, width - 1) \o <<Digit(f % 10)>>

\* the fractional digits of repr(float): trailing zeros dropped, one digit kept
RECURSIVE FracDigits(_, _)
FracDigits(f, width) ==
    IF width = 1 \/ f % 10 # 0 THEN PadDigits(f, width)
    ELSE FracDigits(f \div 10, width - 1)

\* str(x) of a float
StrFloat(x) ==
    (IF x < 0 THEN <<"-">> ELSE <<>>)
    \o IntDigits(Abs(x) \div Ticks) \o <<".">> \o FracDigits(Abs(x) % Ticks, 4)

\* the product of two floats, each with at most two decimals
FMul(a, b) == (a \div 100) * (b \div 100)

\* x / 100.0, x a whole number of hundredths
FDiv100(x) == x \div 100

\* A price or qty as a direct caller may pass it: a number, a numeric str,
\* a non-numeric str, or None.  float() accepts the first two.
Coercible(v) == v.k \in {"num", "numstr"}
FloatOf(v) == v.v
NumV(x) == [k |-> "num", v |-> x]
NumStrV(x) == [k |-> "numstr", v |-> x]
BadStrV == [k |-> "badstr", v |-> 0]
NoneNumV == [k |-> "none", v |-> 0]

-----------------------------------------------------------------------------
(* Constants of the page (lines 26-39), in 1/1000 inch *)

inch == 1000
PAGE_WIDTH == 8268
PAGE_HEIGHT == 11693
LEFT_MARGIN == (75 * inch) \div 100
RIGHT_MARGIN == (75 * inch) \div 100
TOP_MARGIN == (5 * inch) \div 10
BOTTOM_MARGIN == (5 * inch) \div 10
CONTENT_WIDTH == PAGE_WIDTH - LEFT_MARGIN - RIGHT_MARGIN

Assets == {"logo", "qrcode", "signature"}

\* os.path.basename of LOGO_PATH, QRCODE_PATH, SIGNATURE_PATH
Basename(asset) ==
    CASE asset = "logo" -> <<"l", "o", "g", "o", ".", "p", "n", "g">>
      [] asset = "qrcode" -> <<"q", "r", "-", "c", "o", "d", "e", ".", "p", "n", "g">>
      [] asset = "signature" -> <<"s", "i", "g", "n", "a", "t", "u", "r", "e", ".", "p", "n", "g">>

\* draw_logo without the try/except of lines 45-52: an undecodable file raises
draw_logo_unguarded(fileState, asset, x, y, width, height) ==
    IF fileState # "absent"
    THEN IF fileState = "present"
         THEN [asset |-> asset, kind |-> "image", caption |-> <<>>, x |-> x, y |-> y]
         ELSE [asset |-> asset, kind |-> "raise", caption |-> <<"c", "a", "n", "n", "o", "t", " ", "i", "d", "e", "n", "t", "i", "f", "y", " ", "i", "m", "a", "g", "e", " ", "f", "i", "l", "e">>, x |-> x, y |-> y]
    ELSE [asset |-> asset, kind |-> "missing",
          caption |-> <<"[">> \o Basename(asset) \o <<" ", "n", "o", "t", " ", "f", "o", "u", "n", "d", "]">>,
          x |-> x + width \div 2, y |-> y + height \div 2]

\* draw_logo: the drawing the canvas receives for one image slot
draw_logo(fileState, asset, x, y, width, height) ==
    IF fileState # "absent"
    THEN IF fileState = "present"
         THEN [asset |-> asset, kind |-> "image", caption |-> <<>>, x |-> x, y |-> y]
         ELSE [asset |-> asset, kind |-> "error",
               caption |-> <<"I", "m", "a", "g", "e", " ", "E", "r", "r", "o", "r", ":", " ">> \o Basename(asset),
               x |-> x + width \div 2, y |-> y + height \div 2]
    ELSE [asset |-> asset, kind |-> "missing",
          caption |-> <<"[">> \o Basename(asset) \o <<" ", "n", "o", "t", " ", "f", "o", "u", "n", "d", "]">>,
          x |-> x + width \div 2, y |-> y + height \div 2]

\* datetime.date.today().strftime('%d.%m.%y') on day `t` of the model's month
DateStr(t) == PadDigits(t + 1, 2) \o <<".", "0", "1", ".", "2", "6">>

-----------------------------------------------------------------------------
(* create_invoice_pdf (lines 60-190) *)

\* The heights the canvas reports from wrapOn, per kind of paragraph.
\*   title, upi      the two paragraphs of the right column
\*   static          each static paragraph of the left column and lower blocks
\*   name, line      the client name line; every other line of the party block
\*   label, value    the label and the value of a contact or bank row
\*   hdrRow, row     the header row and each item row of the table
\*   noneRaises      whether drawRightString raises on a None text

\* the regions of the page, in the order the code draws them
Regions == <<"logo", "header", "due_date", "invoice_date", "qrcode", "company",
             "party", "table", "summary", "terms", "contact", "bank",
             "signature", "footer">>

RegionIndex(r) == CHOOSE i \in 1..Len(Regions) : Regions[i] = r

\* what drawRightString does with a text that is None is the library's affair:
\* it raises, or it draws the text "None"
NoneText == <<"N", "o", "n", "e">>
NoneError == <<"e", "x", "p", "e", "c", "t", "e", "d", " ", "s", "t", "r", ",", " ", "g", "o", "t", " ", "N", "o", "n", "e", "T", "y", "p", "e">>

NoImage == [asset |-> "", kind |-> "none", caption |-> <<>>, x |-> 0, y |-> 0]

NoSummary == [subTotal |-> <<>>, discount |-> <<>>, gstRate |-> <<>>, gst |-> <<>>,
              advance |-> <<>>, totalDue |-> <<>>]

NoTotals == [subTotal |-> 0, gst |-> 0, grandTotal |-> 0, amountDue |-> 0]

\* the canvas before anything is drawn
EmptyDoc ==
    [status |-> "ok", error |-> <<>>, saved |-> FALSE, regions |-> <<>>,
     logo |-> NoImage, qrcode |-> NoImage, signature |-> NoImage,
     topLine |-> <<>>, invNo |-> <<>>, dueDate |-> <<>>, invDate |-> <<>>,
     party |-> <<>>, yLeft |-> 0, yRight |-> 0,
     tableTop |-> 0, tableHeight |-> 0, rows |-> <<>>,
     totals |-> NoTotals, summary |-> NoSummary,
     summaryStart |-> 0, summaryBottom |-> 0, termsStart |-> 0,
     bankBottom |-> 0, sigBase |-> 0, footer |-> <<>>]

\* lines 130-131: the texts of the party block, with their styles
cust_info_dynamic(client_name, client_phone, client_email, client_address_lines) ==
    <<[text |-> client_name, style |-> "bold"],
      [text |-> IF Truthy(client_phone) THEN <<"P", "h", "o", "n", "e", ":", " ">> \o client_phone ELSE <<>>,
       style |-> "normal"],
      [text |-> IF Truthy(client_email) THEN <<"E", "m", "a", "i", "l", ":", " ">> \o client_email ELSE <<>>,
       style |-> "normal"]>>
    \o (IF client_address_lines # <<>>
        THEN <<[text |-> <<"A", "d", "d", "r", "e", "s", "s", ":">>, style |-> "normal"]>>
             \o [i \in 1..Len(client_address_lines) |->
                    [text |-> client_address_lines[i], style |-> "normal"]]
        ELSE <<>>)

\* line 134
is_address_line(text, client_address_lines) ==
    /\ \E i \in 1..Len(client_address_lines) :
          /\ client_address_lines[i] # <<>>
          /\ IsSubstring(client_address_lines[i], text)
    /\ ~IsSubstring(<<"A", "d", "d", "r", "e", "s", "s", ":">>, text)

\* lines 132-137: place each non-empty text at the left cursor, then lower the
\* cursor by the measured height
RECURSIVE PlaceParty(_, _, _, _)
PlaceParty(infos, client_address_lines, y_pos_left, m) ==
    IF infos = <<>> THEN <<>>
    ELSE LET text == Head(infos).text
             h == IF Head(infos).style = "bold" THEN m.name ELSE m.line
         IN  IF Truthy(text)
             THEN <<[text |-> text, style |-> Head(infos).style,
                     leftIndent |-> IF is_address_line(text, client_address_lines)
                                    THEN (3 * inch) \div 10 ELSE 0,
                     y |-> y_pos_left, height |-> h]>>
                  \o PlaceParty(Tail(infos), client_address_lines, y_pos_left - h, m)
             ELSE PlaceParty(Tail(infos), client_address_lines, y_pos_left, m)

InvalidSuffix == <<" ", "(", "I", "n", "v", "a", "l", "i", "d", " ", "P", "r", "i", "c", "e", "/", "Q", "t", "y", ")">>

\* lines 144-147: the table row of one item, and what it adds to sub_total_amount
ItemRow(item) ==
    LET priceV == Get(item, "price", NumV(0))
        qtyV == Get(item, "qty", NumV(0))
        desc == Get(item, "desc", <<>>)
    IN  IF Coercible(priceV) /\ Coercible(qtyV)
        THEN LET price == FloatOf(priceV)
                 qty == FloatOf(qtyV)
                 item_subtotal == FMul(price, qty)
             IN  [valid |-> TRUE, desc |-> desc,
                  price |-> IF price # 0 THEN FormatMoney(price) ELSE <<>>,
                  qty |-> StrFloat(qty),
                  subtotal |-> FormatMoney(item_subtotal),
                  amount |-> item_subtotal]
        ELSE [valid |-> FALSE, desc |-> desc \o InvalidSuffix,
              price |-> <<>>, qty |-> <<>>, subtotal |-> <<>>, amount |-> 0]

\* rows for the items that coerce only, as a `continue` in the handler would give
table_rows_drop_invalid(items) ==
    LET all == [i \in 1..Len(items) |-> ItemRow(items[i])]
        IsValid(row) == row.valid
    IN  SelectSeq(all, IsValid)

\* lines 142-147: one row per item, in order
table_rows(items) == [i \in 1..Len(items) |-> ItemRow(items[i])]

RECURSIVE SumAmounts(_)
SumAmounts(rows) == IF rows = <<>> THEN 0 ELSE Head(rows).amount + SumAmounts(Tail(rows))

\* the totals with GST charged on the sub-total before the discount
compute_totals_gst_before_discount(rows, discount_amount, advance_payment, gst_rate) ==
    LET sub_total_amount == SumAmounts(rows)
        gst_total == FMul(sub_total_amount, FDiv100(gst_rate))
        grand_total == sub_total_amount - discount_amount + gst_total
        total_due == grand_total - advance_payment
    IN  [subTotal |-> sub_total_amount, gst |-> gst_total,
         grandTotal |-> grand_total, amountDue |-> total_due]

\* lines 141-147 and 153: the derived totals
compute_totals(rows, discount_amount, advance_payment, gst_rate) ==
    LET sub_total_amount == SumAmounts(rows)
        gst_total == FMul(sub_total_amount - discount_amount, FDiv100(gst_rate))
        grand_total == sub_total_amount - discount_amount + gst_total
        total_due == grand_total - advance_payment
    IN  [subTotal |-> sub_total_amount, gst |-> gst_total,
         grandTotal |-> grand_total, amountDue |-> total_due]

\* lines 155 and 158: the strings of the summary block
summary_items(t, discount_amount, advance_payment, gst_rate) ==
    [subTotal |-> FormatMoney(t.subTotal),
     discount |-> <<"-", " ">> \o FormatMoney(discount_amount),
     gstRate |-> StrFloat(gst_rate),
     gst |-> <<"+", " ">> \o FormatMoney(t.gst),
     advance |-> <<"-", " ">> \o FormatMoney(advance_payment),
     totalDue |-> FormatMoney(t.amountDue)]

\* the region in which each field of the canvas is drawn or fixed
FieldRegion(f) ==
    CASE f \in {"logo"} -> "logo"
      [] f \in {"topLine", "invNo"} -> "header"
      [] f \in {"dueDate"} -> "due_date"
      [] f \in {"invDate"} -> "invoice_date"
      [] f \in {"qrcode", "yRight"} -> "qrcode"
      [] f \in {"party", "yLeft"} -> "party"
      [] f \in {"tableTop", "tableHeight", "rows"} -> "table"
      [] f \in {"totals", "summary", "summaryStart", "summaryBottom"} -> "summary"
      [] f \in {"termsStart"} -> "terms"
      [] f \in {"bankBottom"} -> "bank"
      [] f \in {"signature", "sigBase"} -> "signature"
      [] f \in {"footer"} -> "footer"
      [] OTHER -> "none"

\* the canvas as it stands when `region` raises `error`: what was drawn before it
Interrupted(full, region, error) ==
    LET at == RegionIndex(region)
        kept == [f \in DOMAIN full |->
                    IF FieldRegion(f) # "none" /\ RegionIndex(FieldRegion(f)) < at
                    THEN full[f] ELSE EmptyDoc[f]]
    IN  [kept EXCEPT !.status = "raised", !.error = error, !.saved = FALSE,
                     !.regions = SubSeq(Regions, 1, at - 1)]

\* the date printed whatever the dict says
inv_date_str_always_today(invoice_data, t) == DateStr(t)

\* line 87: the invoice date, today's date when the dict has none
inv_date_str_of(invoice_data, t) == Get(invoice_data, "invoice_date", DateStr(t))

\* the table hung from the higher of the two cursors
table_start_y_from_max(y_pos_left, y_pos_right) ==
    Max(y_pos_left, y_pos_right) - (3 * inch) \div 10

\* line 139: the table starts a fixed gap below the lower of the two columns
table_start_y_of(y_pos_left, y_pos_right) ==
    Min(y_pos_left, y_pos_right) - (3 * inch) \div 10

\* line 181: the signature sits a fixed gap below the lower of the two blocks
sig_base_y_of(summary_bottom_y, bank_details_bottom_y) ==
    Min(summary_bottom_y, bank_details_bottom_y) - (2 * inch) \div 10

\* create_invoice_pdf(invoice_data) on day t, with the image files in state
\* `files`, on a canvas that measures `m`; m.noneRaises says which of its two
\* behaviours the library shows for a None text.
create_invoice_pdf(invoice_data, t, files, m) ==
    LET \* --- lines 86-96
        inv_no == Get(invoice_data, "invoice_no", <<"N", "/", "A">>)
        inv_date_str == inv_date_str_of(invoice_data, t)
        due_date_str == Get(invoice_data, "due_date", <<"N", "/", "A">>)
        client_name == Get(invoice_data, "client_name", <<>>)
        client_phone == Get(invoice_data, "client_phone", <<>>)
        client_email == Get(invoice_data, "client_email", <<>>)
        client_address_lines ==
            IF Truthy(Get(invoice_data, "client_address", None))
            THEN SplitLines(Get(invoice_data, "client_address", <<>>)) ELSE <<>>
        items == Get(invoice_data, "items", <<>>)
        discount_amount == Get(invoice_data, "discount", Whole(0))
        advance_payment == Get(invoice_data, "advance_payment", Whole(0))
        gst_rate == Get(invoice_data, "gst_rate", Whole(5))
        \* --- lines 98-123: header, left logo and right column
        header_y_start == PAGE_HEIGHT - TOP_MARGIN - (4 * inch) \div 10
        logo_size == (15 * inch) \div 10
        logoOp == draw_logo(files["logo"], "logo", LEFT_MARGIN,
                            header_y_start - logo_size, logo_size, logo_size)
        y_left_0 == header_y_start - logo_size - (inch \div 10 + (2 * inch) \div 10)
        right_column_start_x == PAGE_WIDTH \div 2 + (5 * inch) \div 10
        right_column_width == PAGE_WIDTH - RIGHT_MARGIN - right_column_start_x
        topLine == <<"I", "N", "V", "O", "I", "C", "E", " ", "N", "O", ":", " ">> \o inv_no \o <<" ", "|", " ", "I", "N", "V", "O", "I", "C", "E", " ", "D", "A", "T", "E", ":", " ">> \o inv_date_str
        y_right_1 == header_y_start - ((4 * inch) \div 10 + m.title + (15 * inch) \div 100)
        line_height_inv == (20 * inch) \div 100
        y_right_2 == y_right_1 - line_height_inv - line_height_inv
                     - (line_height_inv + inch \div 10)
        y_right_3 == y_right_2 - (m.upi + inch \div 10)
        qr_size == (16 * inch) \div 10
        qr_x == right_column_start_x + (right_column_width - qr_size) \div 2
        qr_y == y_right_3 - qr_size
        qrOp == draw_logo(files["qrcode"], "qrcode", qr_x, qr_y, qr_size, qr_size)
        y_pos_right == y_right_3 - (qr_size + (2 * inch) \div 10)
        \* --- lines 125-137: company lines and the party block
        y_left_1 == y_left_0 - (m.static + inch \div 10) - (m.static + (2 * inch) \div 10)
                    - (m.static + inch \div 10)
        party == PlaceParty(cust_info_dynamic(client_name, client_phone, client_email,
                                              client_address_lines),
                            client_address_lines, y_left_1, m)
        y_pos_left == IF party = <<>> THEN y_left_1
                      ELSE party[Len(party)].y - party[Len(party)].height
        \* --- lines 139-151: the table
        table_start_y == table_start_y_of(y_pos_left, y_pos_right)
        rows == table_rows(items)
        table_height == m.hdrRow + Len(rows) * m.row
        table_bottom_y == table_start_y - table_height
        \* --- lines 153-158: the summary
        t_ == compute_totals(rows, discount_amount, advance_payment, gst_rate)
        summary_y_start == table_bottom_y - (3 * inch) \div 10
        summary_line_height == (25 * inch) \div 100
        total_due_y == summary_y_start - 4 * summary_line_height
        total_due_height == (4 * inch) \div 10
        summary_bottom_y == total_due_y - total_due_height
        \* --- lines 160-179: terms, contact and bank details
        terms_y_0 == table_bottom_y - (3 * inch) \div 10
        terms_y == terms_y_0 - (m.static + (15 * inch) \div 100)
                   - (m.static + (3 * inch) \div 10)
        contact_y == terms_y - (m.static + (2 * inch) \div 10)
                     - 3 * (Max(m.label, m.value) + inch \div 10)
        bank_details_y == contact_y - (3 * inch) \div 10 - (m.static + inch \div 10)
        bank_details_bottom_y == bank_details_y
                                 - 4 * (Max(m.label, m.value) + (5 * inch) \div 100)
        \* --- lines 181-183: the signature
        sig_base_y == sig_base_y_of(summary_bottom_y, bank_details_bottom_y)
        sig_width == (15 * inch) \div 10
        sig_x == PAGE_WIDTH - RIGHT_MARGIN - sig_width
        sig_img_width == inch
        sig_img_height == (5 * inch) \div 10
        sigOp == draw_logo(files["signature"], "signature",
                           sig_x + (sig_width - sig_img_width) \div 2, sig_base_y,
                           sig_img_width, sig_img_height)
        \* --- everything drawn, c.save() reached (lines 185-190)
        full ==
            [status |-> "ok", error |-> <<>>, saved |-> TRUE, regions |-> Regions,
             logo |-> logoOp, qrcode |-> qrOp, signature |-> sigOp,
             topLine |-> topLine, invNo |-> <<"#">> \o inv_no,
             dueDate |-> IF due_date_str = None THEN NoneText ELSE due_date_str,
             invDate |-> inv_date_str,
             party |-> party, yLeft |-> y_pos_left, yRight |-> y_pos_right,
             tableTop |-> table_start_y, tableHeight |-> table_height, rows |-> rows,
             totals |-> t_,
             summary |-> summary_items(t_, discount_amount, advance_payment, gst_rate),
             summaryStart |-> summary_y_start, summaryBottom |-> summary_bottom_y,
             termsStart |-> terms_y_0, bankBottom |-> bank_details_bottom_y,
             sigBase |-> sig_base_y, footer |-> topLine]
    IN  IF logoOp.kind = "raise" THEN Interrupted(full, "logo", logoOp.caption)
        ELSE IF due_date_str = None /\ m.noneRaises
             THEN Interrupted(full, "due_date", NoneError)
        ELSE IF qrOp.kind = "raise" THEN Interrupted(full, "qrcode", qrOp.caption)
        ELSE IF sigOp.kind = "raise"
             THEN Interrupted(full, "signature", sigOp.caption)
        ELSE full

-----------------------------------------------------------------------------
(* create_invoice_pdf, statement by statement (lines 98-188)               *)
(*                                                                         *)
(* The same function as the sequence of calls it makes on the canvas and   *)
(* of assignments it makes to its y variables.  A flowable (a Paragraph or *)
(* the Table) is named by a pair <<name, index>>; a cursor is named by the *)
(* y variable of the code that holds it.                                   *)

NoEl == <<"", 0>>

\* a statement with nothing filled in
Stmt ==
    [op |-> "", region |-> "", el |-> NoEl, h |-> 0, cur |-> "", src |-> {},
     els |-> {}, gap |-> 0, base |-> 0, below |-> FALSE, raises |-> FALSE]

\* p.wrapOn(c, width, height): the canvas measures the flowable, p.height = h
wrapOn(region, el, h) ==
    [Stmt EXCEPT !.op = "wrap", !.region = region, !.el = el, !.h = h]

\* p.drawOn(c, x, cur - gap) or, with below, p.drawOn(c, x, cur - gap - p.height)
drawOn(region, el, cur, gap, below) ==
    [Stmt EXCEPT !.op = "draw", !.region = region, !.el = el, !.cur = cur,
                 !.gap = gap, !.below = below]

\* cur = min(src) - (max of the heights of els) - gap
assign(region, cur, src, els, gap) ==
    [Stmt EXCEPT !.op = "assign", !.region = region, !.cur = cur, !.src = src,
                 !.els = els, !.gap = gap]

\* cur = base, a constant of the page
setTo(region, cur, base) ==
    [Stmt EXCEPT !.op = "assign", !.region = region, !.cur = cur, !.base = base]

\* c.drawString, c.drawRightString, c.drawCentredString, c.line, c.roundRect
drawString(region, raises) ==
    [Stmt EXCEPT !.op = "string", !.region = region, !.raises = raises]

\* draw_logo(c, path, ...)
drawImage(region, raises) ==
    [Stmt EXCEPT !.op = "image", !.region = region, !.raises = raises]

\* c.save()
save == [Stmt EXCEPT !.op = "save", !.region = "save"]

\* wrapOn, drawOn at the cursor, cursor -= p.height + gap (lines 126-129, 136-137,
\* 161, 166, 173)
place(region, el, h, cur, gap) ==
    <<wrapOn(region, el, h), drawOn(region, el, cur, 0, FALSE),
      assign(region, cur, {cur}, {el}, gap)>>

RECURSIVE Concat(_)
Concat(ss) == IF ss = <<>> THEN <<>> ELSE Head(ss) \o Concat(Tail(ss))

\* lines 132-137: the statements of the party loop, nothing for an empty text
party_loop(infos, m) ==
    Concat([i \in 1..Len(infos) |->
              IF Truthy(infos[i].text)
              THEN place("party", <<"party", i>>,
                         IF infos[i].style = "bold" THEN m.name ELSE m.line,
                         "y_pos_left", 0)
              ELSE <<>>])

\* line 157: one line of the summary
summary_line ==
    <<drawString("summary", FALSE), drawString("summary", FALSE),
      assign("summary", "current_summary_y", {"current_summary_y"}, {},
             (25 * inch) \div 100)>>

\* lines 169-170: one row of the contact block
contact_row(i, m) ==
    <<assign("contact", "line_start_y", {"contact_y"}, {}, 0),
      wrapOn("contact", <<"contact_label", i>>, m.label),
      drawOn("contact", <<"contact_label", i>>, "line_start_y", 0, TRUE),
      wrapOn("contact", <<"contact_value", i>>, m.value),
      drawOn("contact", <<"contact_value", i>>, "line_start_y", 0, TRUE),
      assign("contact", "contact_y", {"contact_y"},
             {<<"contact_label", i>>, <<"contact_value", i>>}, inch \div 10)>>

\* lines 176-178: one row of the bank details
bank_row(i, m) ==
    <<wrapOn("bank", <<"bank_label", i>>, m.label),
      drawOn("bank", <<"bank_label", i>>, "bank_details_y", 0, FALSE),
      wrapOn("bank", <<"bank_value", i>>, m.value),
      drawOn("bank", <<"bank_value", i>>, "bank_details_y", 0, FALSE),
      assign("bank", "bank_details_y", {"bank_details_y"},
             {<<"bank_label", i>>, <<"bank_value", i>>}, (5 * inch) \div 100)>>

\* lines 98-188 in the order the code runs them
canvas_program(invoice_data, files, m) ==
    LET due_date_str == Get(invoice_data, "due_date", <<"N", "/", "A">>)
        client_address_lines ==
            IF Truthy(Get(invoice_data, "client_address", None))
            THEN SplitLines(Get(invoice_data, "client_address", <<>>)) ELSE <<>>
        infos == cust_info_dynamic(Get(invoice_data, "client_name", <<>>),
                                   Get(invoice_data, "client_phone", <<>>),
                                   Get(invoice_data, "client_email", <<>>),
                                   client_address_lines)
        rows == table_rows(Get(invoice_data, "items", <<>>))
        Raises(a) == draw_logo(files[a], a, 0, 0, 0, 0).kind = "raise"
    IN  \* --- lines 98-102
        <<setTo("page", "y_pos", PAGE_HEIGHT - TOP_MARGIN),
          assign("header", "header_y_start", {"y_pos"}, {}, (4 * inch) \div 10),
          drawImage("header", Raises("logo")),
          assign("header", "y_pos_left", {"header_y_start"}, {},
                 (15 * inch) \div 10 + (inch \div 10 + (2 * inch) \div 10)),
          \* --- lines 105-108
          drawString("header", FALSE),
          assign("header", "y_pos_right", {"header_y_start"}, {}, 0),
          wrapOn("header", <<"title", 1>>, m.title),
          drawOn("header", <<"title", 1>>, "y_pos_right", (4 * inch) \div 10, FALSE),
          assign("header", "y_pos_right", {"y_pos_right"}, {<<"title", 1>>},
                 (4 * inch) \div 10 + (15 * inch) \div 100),
          \* --- lines 110-115
          drawString("header", FALSE), drawString("header", FALSE),
          assign("header", "y_pos_right", {"y_pos_right"}, {}, (20 * inch) \div 100),
          drawString("header", due_date_str = None /\ m.noneRaises),
          drawString("header", FALSE),
          assign("header", "y_pos_right", {"y_pos_right"}, {}, (20 * inch) \div 100),
          drawString("header", FALSE), drawString("header", FALSE),
          assign("header", "y_pos_right", {"y_pos_right"}, {},
                 (20 * inch) \div 100 + inch \div 10),
          \* --- lines 117-123
          wrapOn("header", <<"upi", 1>>, m.upi),
          drawOn("header", <<"upi", 1>>, "y_pos_right", 0, FALSE),
          assign("header", "y_pos_right", {"y_pos_right"}, {<<"upi", 1>>}, inch \div 10),
          drawImage("header", Raises("qrcode")),
          drawString("header", FALSE),
          assign("header", "y_pos_right", {"y_pos_right"}, {},
                 (16 * inch) \div 10 + (2 * inch) \div 10)>>
        \* --- lines 126-129
        \o place("company", <<"company", 1>>, m.static, "y_pos_left", inch \div 10)
        \o place("company", <<"company", 2>>, m.static, "y_pos_left", (2 * inch) \div 10)
        \o place("party", <<"invoice_to", 1>>, m.static, "y_pos_left", inch \div 10)
        \* --- lines 130-137
        \o party_loop(infos, m)
        \* --- lines 139-151
        \o <<assign("table", "table_start_y", {"y_pos_left", "y_pos_right"}, {},
                    (3 * inch) \div 10),
             assign("table", "y_pos", {"table_start_y"}, {}, 0),
             wrapOn("table", <<"table", 1>>, m.hdrRow + Len(rows) * m.row),
             drawOn("table", <<"table", 1>>, "y_pos", 0, TRUE),
             assign("table", "table_bottom_y", {"y_pos"}, {<<"table", 1>>}, 0),
             assign("table", "y_pos", {"table_bottom_y"}, {}, (2 * inch) \div 10),
             \* --- lines 154-158
             assign("summary", "summary_y_start", {"table_bottom_y"}, {},
                    (3 * inch) \div 10),
             assign("summary", "current_summary_y", {"summary_y_start"}, {}, 0)>>
        \o summary_line \o summary_line \o summary_line \o summary_line
        \o <<assign("summary", "total_due_y", {"current_summary_y"}, {}, 0),
             drawString("summary", FALSE), drawString("summary", FALSE),
             drawString("summary", FALSE),
             assign("summary", "summary_bottom_y", {"total_due_y"}, {},
                    (4 * inch) \div 10),
             \* --- lines 160-163
             assign("terms", "terms_y", {"table_bottom_y"}, {}, (3 * inch) \div 10)>>
        \o place("terms", <<"terms", 1>>, m.static, "terms_y", (15 * inch) \div 100)
        \o <<wrapOn("terms", <<"terms", 2>>, m.static),
             drawOn("terms", <<"terms", 2>>, "terms_y", 0, TRUE),
             assign("terms", "terms_y", {"terms_y"}, {<<"terms", 2>>},
                    (3 * inch) \div 10),
             \* --- lines 165-170
             assign("contact", "contact_y", {"terms_y"}, {}, 0)>>
        \o place("contact", <<"thanks", 1>>, m.static, "contact_y", (2 * inch) \div 10)
        \o contact_row(1, m) \o contact_row(2, m) \o contact_row(3, m)
        \* --- lines 172-179
        \o <<assign("bank", "bank_details_y", {"contact_y"}, {}, (3 * inch) \div 10)>>
        \o place("bank", <<"bank_heading", 1>>, m.static, "bank_details_y", inch \div 10)
        \o bank_row(1, m) \o bank_row(2, m) \o bank_row(3, m) \o bank_row(4, m)
        \o <<assign("bank", "bank_details_bottom_y", {"bank_details_y"}, {}, 0),
             \* --- lines 181-183
             assign("signature", "sig_base_y",
                    {"summary_bottom_y", "bank_details_bottom_y"}, {},
                    (2 * inch) \div 10),
             drawImage("signature", Raises("signature")),
             assign("signature", "sig_text_y", {"sig_base_y"}, {}, inch \div 10),
             wrapOn("signature", <<"signature_text", 1>>, m.static),
             drawOn("signature", <<"signature_text", 1>>, "sig_text_y", 0, TRUE),
             \* --- lines 185-188
             setTo("footer", "footer_y", BOTTOM_MARGIN),
             drawString("footer", FALSE),
             wrapOn("footer", <<"footer", 1>>, m.static),
             drawOn("footer", <<"footer", 1>>, "footer_y", 0, FALSE),
             save>>

\* f with f[k] = v
Put(f, k, v) == [x \in DOMAIN f \cup {k} |-> IF x = k THEN v ELSE f[x]]

\* the least of the values f takes on S
MinOf(f, S) == CHOOSE v \in {f[x] : x \in S} : \A x \in S : v <= f[x]

\* the cursor left where it was but for the fixed gap
cursor_after_gap_only(from, heights, gap) == from - gap

\* the right-hand side of an assignment to a cursor: the value read, less the
\* height of the flowable just drawn (the greater of two for a label and its
\* value), less the fixed gap
cursor_after(from, heights, gap) ==
    from - (IF heights = {} THEN 0 ELSE CHOOSE h \in heights : \A g \in heights : h >= g)
         - gap

\* no call under way
NoCanvas ==
    [status |-> "idle", day |-> 0, prog |-> <<>>, pc |-> 0, cur |-> <<>>,
     height |-> <<>>, drawn |-> <<>>, placed |-> {}, writers |-> <<>>]

-----------------------------------------------------------------------------
(* The request model and the endpoints (lines 193-273) *)

\* lines 193-196: InvoiceItem, built from a posted item
InvoiceItem(posted) ==
    [desc |-> posted.desc,
     price |-> Get(posted, "price", NumV(Whole(0))),
     qty |-> Get(posted, "qty", NumV(Whole(0)))]

\* a field that has an alias is accepted under its name or its alias (line 211)
GetEither(body, name, alias, default) ==
    IF alias \in DOMAIN body THEN body[alias] ELSE Get(body, name, default)

\* lines 198-211: InvoiceRequestData, built from a posted body that validates
InvoiceRequestData(body) ==
    [invoice_no |-> body.invoice_no,
     invoice_date |-> body.invoice_date,
     due_date |-> Get(body, "due_date", None),
     client_name |-> body.client_name,
     client_phone |-> Get(body, "client_phone", None),
     client_email |-> Get(body, "client_email", None),
     client_address |-> Get(body, "client_address", None),
     items |-> LET posted == Get(body, "items", <<>>)
               IN  [i \in 1..Len(posted) |-> InvoiceItem(posted[i])],
     discount |-> Get(body, "discount", Whole(0)),
     advance_payment |-> GetEither(body, "advance_payment", "advancePayment", Whole(0)),
     gst_rate |-> GetEither(body, "gst_rate", "gstRate", Whole(5))]

\* the key model_dump(by_alias=True) gives a field (lines 208-209)
AliasOf(field) ==
    CASE field = "advance_payment" -> "advancePayment"
      [] field = "gst_rate" -> "gstRate"
      [] OTHER -> field

\* data.model_dump(by_alias=True) (lines 234, 258)
model_dump(data) ==
    LET keys == {AliasOf(f) : f \in DOMAIN data}
    IN  [k \in keys |-> data[CHOOSE f \in DOMAIN data : AliasOf(f) = k]]

\* str.isalnum() of one character, over the characters the model uses
Alnum == {"A", "B", "C", "D", "E", "F", "G", "H", "I", "J", "K", "L", "M", "N", "O", "P", "Q", "R", "S", "T", "U", "V", "W", "X", "Y", "Z", "a", "b", "c", "d", "e", "f", "g", "h", "i", "j", "k", "l", "m", "n", "o", "p", "q", "r", "s", "t", "u", "v", "w", "x", "y", "z", "0", "1", "2", "3", "4", "5", "6", "7", "8", "9"}
isalnum(c) == c \in Alnum

\* str.isspace() of one character
isspace(c) == c \in {" ", "\n", "\t"}

\* str.rstrip()
RECURSIVE rstrip(_)
rstrip(s) == IF s # <<>> /\ isspace(s[Len(s)]) THEN rstrip(SubSeq(s, 1, Len(s) - 1)) ELSE s

\* the generator of lines 238 and 262
RECURSIVE KeepFilenameChars(_)
KeepFilenameChars(s) ==
    IF s = <<>> THEN <<>>
    ELSE (IF isalnum(Head(s)) \/ Head(s) \in {"-", "_"} THEN <<Head(s)>> ELSE <<>>)
         \o KeepFilenameChars(Tail(s))

\* the same without the `or 'generated'` of lines 239 and 263
invoice_filename_no_fallback(invoice_no) ==
    <<"i", "n", "v", "o", "i", "c", "e", "_">> \o rstrip(KeepFilenameChars(invoice_no)) \o <<".", "p", "d", "f">>

\* lines 238-239 and 262-263
invoice_filename(invoice_no) ==
    LET inv_no_filename == rstrip(KeepFilenameChars(invoice_no))
    IN  <<"i", "n", "v", "o", "i", "c", "e", "_">> \o (IF inv_no_filename # <<>> THEN inv_no_filename ELSE <<"g", "e", "n", "e", "r", "a", "t", "e", "d">>)
        \o <<".", "p", "d", "f">>

NoBody == [EmptyDoc EXCEPT !.status = "none"]

NoResponse == [status_code |-> 0, media_type |-> <<>>, disposition |-> "",
               filename |-> <<>>, detail |-> <<>>, body |-> NoBody]

\* a handler that streams whatever the buffer holds when the render raises
generate_invoice_api_partial(data, t, files, m) ==
    LET pdf_buffer == create_invoice_pdf(model_dump(data), t, files, m)
    IN  [status_code |-> 200, media_type |-> <<"a", "p", "p", "l", "i", "c", "a", "t", "i", "o", "n", "/", "p", "d", "f">>,
         disposition |-> "attachment",
         filename |-> invoice_filename(data.invoice_no),
         detail |-> <<>>, body |-> pdf_buffer]

\* POST /generate-pdf (lines 228-249)
generate_invoice_api(data, t, files, m) ==
    LET invoice_data_dict == model_dump(data)
        pdf_buffer == create_invoice_pdf(invoice_data_dict, t, files, m)
    IN  IF pdf_buffer.status = "raised"
        THEN [status_code |-> 500, media_type |-> <<>>, disposition |-> "",
              filename |-> <<>>, detail |-> <<"I", "n", "t", "e", "r", "n", "a", "l", " ", "S", "e", "r", "v", "e", "r", " ", "E", "r", "r", "o", "r", ":", " ">> \o pdf_buffer.error,
              body |-> NoBody]
        ELSE [status_code |-> 200, media_type |-> <<"a", "p", "p", "l", "i", "c", "a", "t", "i", "o", "n", "/", "p", "d", "f">>,
              disposition |-> "attachment",
              filename |-> invoice_filename(data.invoice_no),
              detail |-> <<>>, body |-> pdf_buffer]

\* POST /view-pdf (lines 252-273)
view_invoice_api(data, t, files, m) ==
    LET invoice_data_dict == model_dump(data)
        pdf_buffer == create_invoice_pdf(invoice_data_dict, t, files, m)
    IN  IF pdf_buffer.status = "raised"
        THEN [status_code |-> 500, media_type |-> <<>>, disposition |-> "",
              filename |-> <<>>, detail |-> <<"I", "n", "t", "e", "r", "n", "a", "l", " ", "S", "e", "r", "v", "e", "r", " ", "E", "r", "r", "o", "r", ":", " ">> \o pdf_buffer.error,
              body |-> NoBody]
        ELSE [status_code |-> 200, media_type |-> <<"a", "p", "p", "l", "i", "c", "a", "t", "i", "o", "n", "/", "p", "d", "f">>,
              disposition |-> "inline",
              filename |-> invoice_filename(data.invoice_no),
              detail |-> <<>>, body |-> pdf_buffer]

-----------------------------------------------------------------------------
(* The state machine *)

ReqIds == 1..MaxReq

NoRequest == [endpoint |-> "", posted |-> [none |-> TRUE]]
NoCall == [none |-> TRUE]
NoDoc == NoBody

\* the state at start-up: no request, no call; the files and the canvas are
\* what the installation has
InitWith(fileStates, metrics) ==
    /\ today = 0
    /\ assets \in fileStates
    /\ metric \in metrics
    /\ inflight = [i \in ReqIds |-> NoRequest]
    /\ responses = [i \in ReqIds |-> NoResponse]
    /\ call = NoCall
    /\ out = NoDoc
    /\ prevOut = NoDoc
    /\ canvas = NoCanvas

\* the calendar moves on
Tick ==
    /\ today < MaxDay
    /\ today' = today + 1
    /\ UNCHANGED <<assets, metric, inflight, responses, call, out, prevOut, canvas>>

\* a client posts a body that validates to one of the two endpoints
Post(i, endpoint, body) ==
    /\ inflight[i].endpoint = ""
    /\ inflight' = [inflight EXCEPT ![i] = [endpoint |-> endpoint, posted |-> body]]
    /\ UNCHANGED <<today, assets, metric, responses, call, out, prevOut, canvas>>

\* the server runs generate_invoice_api on a waiting request
GeneratePdf(i) ==
    /\ inflight[i].endpoint = "/generate-pdf"
    /\ responses[i].status_code = 0
    /\ responses' = [responses EXCEPT ![i] =
          generate_invoice_api(InvoiceRequestData(inflight[i].posted),
                               today, assets, metric)]
    /\ UNCHANGED <<today, assets, metric, inflight, call, out, prevOut, canvas>>

\* the server runs view_invoice_api on a waiting request
ViewPdf(i) ==
    /\ inflight[i].endpoint = "/view-pdf"
    /\ responses[i].status_code = 0
    /\ responses' = [responses EXCEPT ![i] =
          view_invoice_api(InvoiceRequestData(inflight[i].posted),
                           today, assets, metric)]
    /\ UNCHANGED <<today, assets, metric, inflight, call, out, prevOut, canvas>>

\* the client has its response; the slot is free again
Collect(i) ==
    /\ responses[i].status_code # 0
    /\ inflight' = [inflight EXCEPT ![i] = NoRequest]
    /\ responses' = [responses EXCEPT ![i] = NoResponse]
    /\ UNCHANGED <<today, assets, metric, call, out, prevOut, canvas>>

\* a caller inside the process calls create_invoice_pdf with a dict
Render(invoice_data) ==
    /\ out.status = "none"
    /\ call' = invoice_data
    /\ out' = create_invoice_pdf(invoice_data, today, assets, metric)
    /\ prevOut' = NoDoc
    /\ UNCHANGED <<today, assets, metric, inflight, responses, canvas>>

\* the caller is done with the buffer it got
Return ==
    /\ out.status # "none"
    /\ call' = NoCall
    /\ out' = NoDoc
    /\ prevOut' = NoDoc
    /\ UNCHANGED <<today, assets, metric, inflight, responses, canvas>>

\* the caller renders the same dict once more
Rerender ==
    /\ out.status # "none"
    /\ prevOut.status = "none"
    /\ prevOut' = out
    /\ out' = create_invoice_pdf(call, today, assets, metric)
    /\ UNCHANGED <<today, assets, metric, inflight, responses, call, canvas>>

\* the statement the call under way is about to run
Current == canvas.prog[canvas.pc]

Running(op) == canvas.status = "running" /\ Current.op = op

\* a caller inside the process calls create_invoice_pdf: a fresh canvas, line 98 next
BeginRender(invoice_data) ==
    /\ canvas.status # "running"
    /\ call' = invoice_data
    /\ out' = NoDoc
    /\ prevOut' = NoDoc
    /\ canvas' = [NoCanvas EXCEPT !.status = "running", !.day = today, !.pc = 1,
                                  !.prog = canvas_program(invoice_data, assets, metric)]
    /\ UNCHANGED <<today, assets, metric, inflight, responses>>

\* p.wrapOn: the flowable has a height from now on
WrapOn ==
    /\ Running("wrap")
    /\ canvas' = [canvas EXCEPT !.pc = @ + 1,
                                !.height = Put(@, Current.el, Current.h)]
    /\ UNCHANGED <<today, assets, metric, inflight, responses, call, out, prevOut>>

\* p.drawOn: the flowable is on the page at the y the statement computes; the
\* height it uses is the one wrapOn left
DrawOn ==
    /\ Running("draw")
    /\ LET s == Current
           y == canvas.cur[s.cur] - s.gap
                - (IF s.below THEN Get(canvas.height, s.el, 0) ELSE 0)
       IN  canvas' = [canvas EXCEPT !.pc = @ + 1, !.drawn = Put(@, s.el, y)]
    /\ UNCHANGED <<today, assets, metric, inflight, responses, call, out, prevOut>>

\* an assignment to a y variable
Assign ==
    /\ Running("assign")
    /\ LET s == Current
           from == IF s.src = {} THEN s.base ELSE MinOf(canvas.cur, s.src)
           heights == {Get(canvas.height, e, 0) : e \in s.els}
       IN  canvas' = [canvas EXCEPT
                        !.pc = @ + 1,
                        !.cur = Put(@, s.cur, cursor_after(from, heights, s.gap)),
                        !.placed = @ \cup s.els,
                        !.writers = Put(@, s.cur, Get(@, s.cur, {}) \cup {s.region})]
    /\ UNCHANGED <<today, assets, metric, inflight, responses, call, out, prevOut>>

\* a statement that raises ends the call; the caller sees the exception
Raise ==
    /\ canvas' = [canvas EXCEPT !.status = "raised"]
    /\ out' = create_invoice_pdf(call, canvas.day, assets, metric)
    /\ UNCHANGED <<today, assets, metric, inflight, responses, call, prevOut>>

Proceed ==
    /\ canvas' = [canvas EXCEPT !.pc = @ + 1]
    /\ UNCHANGED <<today, assets, metric, inflight, responses, call, out, prevOut>>

\* a fixed-height drawing call: a string, a line, a rectangle
DrawString ==
    /\ Running("string")
    /\ IF Current.raises THEN Raise ELSE Proceed

\* draw_logo
DrawImage ==
    /\ Running("image")
    /\ IF Current.raises THEN Raise ELSE Proceed

\* c.save() and the return of the buffer
Save ==
    /\ Running("save")
    /\ canvas' = [canvas EXCEPT !.status = "done"]
    /\ out' = create_invoice_pdf(call, canvas.day, assets, metric)
    /\ UNCHANGED <<today, assets, metric, inflight, responses, call, prevOut>>


-----------------------------------------------------------------------------
(* Inputs *)

\* a dict without some of its keys, and with one key set
Without(d, keys) == [k \in DOMAIN d \ keys |-> d[k]]
With(d, key, value) == [k \in DOMAIN d \cup {key} |-> IF k = key THEN value ELSE d[k]]

\* all sequences over S of length at most n
RECURSIVE SeqsUpTo(_, _)
SeqsUpTo(S, n) ==
    IF n = 0 THEN {<<>>}
    ELSE LET shorter == SeqsUpTo(S, n - 1)
         IN  shorter \cup {Append(q, x) : q \in shorter, x \in S}

Trek == [desc |-> <<"T", "r", "e", "k">>, price |-> NumV(Whole(1000)), qty |-> NumV(Whole(2))]

\* the record of the spec's endpoint scenario, every optional field given
FullBody ==
    [invoice_no |-> <<"I", "N", "V", "-", "1">>, invoice_date |-> <<"0", "1", ".", "0", "1", ".", "2", "4">>, due_date |-> <<"1", "5", ".", "0", "1", ".", "2", "4">>,
     client_name |-> <<"A", "n", "n">>, client_phone |-> <<"1", "2">>, client_email |-> <<"a", "@", "b">>,
     client_address |-> <<"M", "a", "l", "d", "a", "\n", "W", "B">>, items |-> <<Trek>>,
     discount |-> Whole(0), advancePayment |-> Whole(500), gstRate |-> Whole(5)]

OptionalFields == {"due_date", "client_phone", "client_email", "client_address",
                   "discount", "advancePayment", "gstRate"}

\* bodies that validate as InvoiceRequestData: the full record, a record with
\* another GST rate, records with optional fields left out, and a record that
\* names advance_payment by its field name
ApiBodies ==
    {FullBody,
     With(FullBody, "gstRate", Whole(18)),
     Without(FullBody, {"due_date"}),
     Without(FullBody, {"client_phone", "client_email", "client_address"}),
     Without(FullBody, OptionalFields),
     With(Without(FullBody, {"advancePayment"}), "advance_payment", Whole(500))}

\* the characters invoice numbers are generated from
NoChars == {"A", "7", "-", "_", "/", " "}

NamedBodies ==
    {With(FullBody, "invoice_no", no) :
        no \in SeqsUpTo(NoChars, MaxNoLen) \cup {<<"I", "N", "V", "/", "2", "0", "2", "4", "#", "0", "1">>, <<"#", "/", "#">>, <<"A", "-", "1", " ", "\n">>}}

\* a dict as a caller inside the process passes it to create_invoice_pdf
DirectDict ==
    [invoice_no |-> <<"I", "N", "V", "-", "1">>, invoice_date |-> <<"0", "1", ".", "0", "1", ".", "2", "4">>, due_date |-> <<"1", "5", ".", "0", "1", ".", "2", "4">>,
     client_name |-> <<"A", "n", "n">>, items |-> <<Trek>>,
     discount |-> Whole(0), advance_payment |-> Whole(500), gst_rate |-> Whole(5)]

\* items whose price and qty coerce, do not coerce, or are left out
TotalsItems ==
    {Trek,
     [desc |-> <<"T", "e", "a">>, price |-> BadStrV, qty |-> NumV(Whole(1))],
     [desc |-> <<"B", "u", "s">>, price |-> NumV(Cents(25050)), qty |-> NoneNumV],
     [desc |-> <<"C", "a", "b">>, price |-> NumStrV(Cents(25)), qty |-> NumV(Whole(3))],
     [desc |-> <<"G", "i", "f", "t">>]}

TotalsDicts ==
    {[DirectDict EXCEPT !.items = its, !.discount = d, !.advance_payment = a,
                        !.gst_rate = g] :
        its \in SeqsUpTo(TotalsItems, MaxItems),
        d \in {Whole(0), Cents(10050)},
        a \in {Whole(0), Whole(500), Whole(5000)},
        g \in {Whole(0), Whole(5), Whole(18)}}

\* names, phones, e-mails and addresses, some of whose address lines occur
\* inside another line of the block or hold the text "Address:"
PartyDicts ==
    LET names == {<<"A", "n", "n">>, <<"M", "a", "l", "d", "a", " ", "C", "o">>}
        phones == {None, <<"1", "2">>}
        emails == {None, <<"a", "@", "b">>}
        addresses == {None, <<>>, <<"M", "a", "l", "d", "a", "\n", "W", "B">>, <<"1", "\n", "W", "B">>, <<"A", "d", "d", "r", "e", "s", "s", ":", " ", "5", "\n", "W", "B">>, <<"W", "B", "\n", "\n", "X">>}
        Opt(d, key, v) == IF v = None THEN d ELSE With(d, key, v)
    IN  {Opt(Opt(Opt([DirectDict EXCEPT !.client_name = n],
                     "client_phone", ph), "client_email", em), "client_address", ad) :
            n \in names, ph \in phones, em \in emails, ad \in addresses}

\* dicts with and without the two dates, and with a due date of None
DatedDicts ==
    LET dues == {Without(DirectDict, {"due_date"}), DirectDict,
                 [DirectDict EXCEPT !.due_date = None]}
        dated == dues \cup {Without(d, {"invoice_date"}) : d \in dues}
    IN  dated \cup {[d EXCEPT !.items = <<>>] : d \in dated}

AllPresent == [a \in Assets |-> "present"]
AllAbsent == [a \in Assets |-> "absent"]
FileStates == [Assets -> {"present", "absent", "corrupt"}]

\* one line of 9 pt text with 11 pt leading is 0.153 inch high
DefaultMetric ==
    [title |-> 153, upi |-> 153, static |-> 153, name |-> 153, line |-> 153,
     label |-> 153, value |-> 153, hdrRow |-> 250, row |-> 220, noneRaises |-> TRUE]

\* the same canvas with either behaviour for a None text
LibraryMetrics == {DefaultMetric, [DefaultMetric EXCEPT !.noneRaises = FALSE]}

\* canvases that wrap the title, the name, the party lines and the row values
\* into zero, one or several lines
LayoutMetrics ==
    {[DefaultMetric EXCEPT !.title = t, !.name = n, !.line = l, !.value = v] :
        t \in {0, 153}, n \in {153, 612}, l \in {0, 612}, v \in {153, 306}}

-----------------------------------------------------------------------------
(* Specifications *)

Endpoints == {"/generate-pdf", "/view-pdf"}

\* the service: clients post bodies, the two handlers answer
Init == InitWith({AllPresent}, LibraryMetrics)

Next ==
    \/ \E i \in ReqIds, e \in Endpoints, b \in ApiBodies : Post(i, e, b)
    \/ \E i \in ReqIds : GeneratePdf(i)
    \/ \E i \in ReqIds : ViewPdf(i)
    \/ \E i \in ReqIds : Collect(i)
    \/ Tick

Spec == Init /\ [][Next]_vars

\* the service, one request at a time, posted invoice numbers of every shape
InitNames == InitWith({AllPresent}, {DefaultMetric})

NextNames ==
    \/ \E e \in Endpoints, b \in NamedBodies : Post(1, e, b)
    \/ GeneratePdf(1)
    \/ ViewPdf(1)
    \/ Collect(1)
    \/ Tick

SpecNames == InitNames /\ [][NextNames]_vars

\* direct calls of create_invoice_pdf
RenderNext(dicts) ==
    \/ \E d \in dicts : Render(d)
    \/ Rerender
    \/ Return
    \/ Tick

\* direct calls that vary the items and the three amounts
InitTotals == InitWith({AllPresent}, {DefaultMetric})
SpecTotals == InitTotals /\ [][RenderNext(TotalsDicts)]_vars

\* direct calls that vary the party block, on every state of the image files
\* and on canvases that measure differently
InitLayout == InitWith(FileStates, LayoutMetrics)
SpecLayout == InitLayout /\ [][RenderNext(PartyDicts)]_vars

\* direct calls that vary the dates, on either behaviour of the library
InitRender == InitWith({AllPresent, AllAbsent}, LibraryMetrics)
SpecRender == InitRender /\ [][RenderNext(DatedDicts)]_vars

\* calls followed statement by statement: dicts whose party block has one to
\* six lines, whose item list is empty or full, and whose due date is None
CanvasDicts ==
    {DirectDict,
     [DirectDict EXCEPT !.due_date = None],
     [DirectDict EXCEPT !.items = <<>>],
     [DirectDict EXCEPT !.items = [i \in 1..MaxItems |-> Trek]],
     With(With(With(DirectDict, "client_phone", <<"1", "2">>), "client_email", <<"a", "@", "b">>),
          "client_address", <<"M", "a", "l", "d", "a", "\n", "W", "B">>),
     With(DirectDict, "client_address", <<"W", "B", "\n", "\n", "X">>)}

\* canvases on which a paragraph wraps into no line, one line or four, and on
\* which the label or the value of a row is the higher; either behaviour of
\* the library for a None text
CanvasMetrics ==
    {DefaultMetric,
     [DefaultMetric EXCEPT !.noneRaises = FALSE],
     [DefaultMetric EXCEPT !.line = 612, !.name = 612, !.value = 306],
     [DefaultMetric EXCEPT !.title = 0, !.line = 0, !.label = 306],
     [DefaultMetric EXCEPT !.static = 306, !.row = 440, !.noneRaises = FALSE]}

InitCanvas == InitWith({AllPresent, AllAbsent}, CanvasMetrics)

NextCanvas ==
    \/ \E d \in CanvasDicts : BeginRender(d)
    \/ WrapOn
    \/ DrawOn
    \/ Assign
    \/ DrawString
    \/ DrawImage
    \/ Save
    \/ Tick

SpecCanvas == InitCanvas /\ [][NextCanvas]_vars

-----------------------------------------------------------------------------
(* Claims about the endpoints *)

Responded(i) == responses[i].status_code # 0
PostedTo(i) == inflight[i].posted

\* C1: for every InvoiceRecord posted to /generate-pdf or /view-pdf the summary
\* is computed from the record's own gstRate and advancePayment, not from the
\* defaults 5.0 and 0.0; items=[Trek 1000 x 2], discount=0, gstRate=5,
\* advancePayment=500 gives subTotal 2,000.00, GST 100.00, grand total 2,100.00
\* and Total Due 1,600.00.
C1_SummaryFromOwnRates ==
    \A i \in ReqIds :
        Responded(i) /\ responses[i].status_code = 200 =>
            LET body == PostedTo(i)
                doc == responses[i].body
                rate == GetEither(body, "gst_rate", "gstRate", Whole(5))
                advance == GetEither(body, "advance_payment", "advancePayment", Whole(0))
                discount == Get(body, "discount", Whole(0))
                base == doc.totals.subTotal - discount
            IN  /\ doc.totals.gst = (base \div 100) * (rate \div Ticks)
                /\ doc.totals.amountDue = doc.totals.grandTotal - advance
                /\ doc.summary.advance = <<"-", " ">> \o FormatMoney(advance)
                /\ body.items = <<Trek>> /\ discount = Whole(0) /\ rate = Whole(5)
                   /\ advance = Whole(500)
                   => /\ doc.summary.subTotal = <<"2", ",", "0", "0", "0", ".", "0", "0">>
                      /\ doc.summary.gst = <<"+", " ", "1", "0", "0", ".", "0", "0">>
                      /\ doc.totals.grandTotal = Whole(2100)
                      /\ doc.summary.totalDue = <<"1", ",", "6", "0", "0", ".", "0", "0">>

\* C4: a record posted with optional fields absent still renders: status 200
\* with the complete document, an absent dueDate shown as "N/A", no Phone or
\* Email line for an absent phone or email, no address lines for an absent
\* address.
C4_AbsentOptionalsRender ==
    \A i \in ReqIds :
        Responded(i) =>
            LET body == PostedTo(i)
                r == responses[i]
                texts == {r.body.party[k].text : k \in 1..Len(r.body.party)}
            IN  /\ r.status_code = 200
                /\ r.body.saved
                /\ "due_date" \notin DOMAIN body => r.body.dueDate = <<"N", "/", "A">>
                /\ "due_date" \in DOMAIN body => r.body.dueDate = body.due_date
                /\ "client_phone" \notin DOMAIN body =>
                      \A x \in texts : SubSeq(x, 1, 7) # <<"P", "h", "o", "n", "e", ":", " ">>
                /\ "client_email" \notin DOMAIN body =>
                      \A x \in texts : SubSeq(x, 1, 7) # <<"E", "m", "a", "i", "l", ":", " ">>
                /\ "client_address" \notin DOMAIN body => <<"A", "d", "d", "r", "e", "s", "s", ":">> \notin texts

KeptInFilename(c) == c \in Alnum \cup {"-", "_"}

\* C5: both endpoints name the file invoice_<s>.pdf, <s> the invoice number with
\* every character other than alphanumerics, '-' and '_' removed, or "generated"
\* when nothing remains; "INV/2024#01" gives invoice_INV202401.pdf; the two
\* responses differ only in the disposition, attachment or inline.
C5_FilenameSanitized ==
    \A i \in ReqIds :
        Responded(i) =>
            LET no == PostedTo(i).invoice_no
                kept == SelectSeq(no, KeptInFilename)
                r == responses[i]
                twin == IF inflight[i].endpoint = "/generate-pdf"
                        THEN view_invoice_api(InvoiceRequestData(PostedTo(i)),
                                              today, assets, metric)
                        ELSE generate_invoice_api(InvoiceRequestData(PostedTo(i)),
                                                  today, assets, metric)
            IN  /\ r.status_code = 200
                /\ r.filename = <<"i", "n", "v", "o", "i", "c", "e", "_">>
                                \o (IF kept = <<>> THEN <<"g", "e", "n", "e", "r", "a", "t", "e", "d">> ELSE kept) \o <<".", "p", "d", "f">>
                /\ no = <<"I", "N", "V", "/", "2", "0", "2", "4", "#", "0", "1">> => r.filename = <<"i", "n", "v", "o", "i", "c", "e", "_", "I", "N", "V", "2", "0", "2", "4", "0", "1", ".", "p", "d", "f">>
                /\ r.disposition = IF inflight[i].endpoint = "/generate-pdf"
                                   THEN "attachment" ELSE "inline"
                /\ twin.disposition # r.disposition
                /\ [twin EXCEPT !.disposition = ""] = [r EXCEPT !.disposition = ""]

C5_Witness ==
    \E i \in ReqIds :
        /\ Responded(i)
        /\ PostedTo(i).invoice_no = <<"#", "/", "#">>
        /\ inflight[i].endpoint = "/view-pdf"
        /\ responses[i].filename = <<"i", "n", "v", "o", "i", "c", "e", "_", "g", "e", "n", "e", "r", "a", "t", "e", "d", ".", "p", "d", "f">>
        /\ responses[i].disposition = "inline"

\* C7: a request has exactly two outcomes: the render ran to completion (canvas
\* saved) and the full document is returned with status 200, or a step of the
\* render raised and the caller gets status 500 whose detail echoes the error
\* text and no document; which of the two depends on that request alone.
C7_TwoOutcomes ==
    \A i \in ReqIds :
        Responded(i) =>
            LET r == responses[i]
                raises == "due_date" \notin DOMAIN PostedTo(i) /\ metric.noneRaises
            IN  IF raises
                THEN /\ r.status_code = 500
                     /\ r.detail = <<"I", "n", "t", "e", "r", "n", "a", "l", " ", "S", "e", "r", "v", "e", "r", " ", "E", "r", "r", "o", "r", ":", " ">> \o NoneError
                     /\ r.body = NoBody
                     /\ r.filename = <<>>
                ELSE /\ r.status_code = 200
                     /\ r.detail = <<>>
                     /\ r.body.status = "ok"
                     /\ r.body.saved
                     /\ r.body.regions = Regions
                     /\ r.body.footer # <<>>

C7_Witness ==
    \E i, j \in ReqIds :
        /\ responses[i].status_code = 500
        /\ responses[i].body = NoBody
        /\ responses[j].status_code = 200
        /\ responses[j].body.saved

-----------------------------------------------------------------------------
(* Claims about create_invoice_pdf *)

Rendered == out.status # "none"

ItemCoerces(item) ==
    /\ Get(item, "price", NumV(0)).k \in {"num", "numstr"}
    /\ Get(item, "qty", NumV(0)).k \in {"num", "numstr"}

\* price * qty of an item that coerces; qty is a whole number in the model
ItemAmount(item) ==
    Get(item, "price", NumV(0)).v * (Get(item, "qty", NumV(0)).v \div Ticks)

RECURSIVE SumOfCoercible(_)
SumOfCoercible(items) ==
    IF items = <<>> THEN 0
    ELSE (IF ItemCoerces(Head(items)) THEN ItemAmount(Head(items)) ELSE 0)
         + SumOfCoercible(Tail(items))

\* C2: for non-negative price, qty, discount, advancePayment and gstRate the
\* Total Due band shows (sum of price*qty - discount) * (1 + gstRate/100)
\* - advancePayment formatted to 2 decimals; subTotal, gstAmount and grandTotal
\* are the exact intermediate values, unrounded; a negative amount is shown as is.
C2_TotalDueFormula ==
    Rendered /\ (\A k \in 1..Len(call.items) : ItemCoerces(call.items[k])) =>
        LET S == SumOfCoercible(call.items)
            D == call.discount
            A == call.advance_payment
            R == call.gst_rate \div Ticks
            due == ((S - D) \div 100) * (100 + R) - A
        IN  /\ out.status = "ok"
            /\ out.totals.subTotal = S
            /\ out.totals.gst = ((S - D) \div 100) * R
            /\ out.totals.grandTotal = S - D + ((S - D) \div 100) * R
            /\ out.totals.amountDue = due
            /\ out.summary.totalDue = FormatMoney(due)
            /\ due < 0 => Head(out.summary.totalDue) = "-"

C2_Witness ==
    /\ Rendered
    /\ Len(call.items) = 2
    /\ \A k \in 1..Len(call.items) : ItemCoerces(call.items[k])
    /\ call.discount = Cents(10050) /\ call.gst_rate = Whole(18)
    /\ call.advance_payment = Whole(5000)
    /\ out.totals.gst % 100 # 0
    /\ out.totals.amountDue < 0
    /\ Head(out.summary.totalDue) = "-"

\* C3: an item whose price or qty cannot be coerced never aborts the render:
\* the table has one row per item in input order; a non-coercible item is a row
\* with the description suffixed "(Invalid Price/Qty)" that adds nothing to
\* subTotal; every other item is rendered and summed as price * qty.
C3_InvalidItemsKeepRows ==
    Rendered =>
        /\ out.status = "ok"
        /\ Len(out.rows) = Len(call.items)
        /\ \A k \in 1..Len(call.items) :
              LET item == call.items[k]
                  row == out.rows[k]
              IN  IF ItemCoerces(item)
                  THEN /\ row.desc = item.desc
                       /\ row.subtotal = FormatMoney(ItemAmount(item))
                       /\ row.amount = ItemAmount(item)
                  ELSE /\ row.desc = item.desc \o <<" ", "(", "I", "n", "v", "a", "l", "i", "d", " ", "P", "r", "i", "c", "e", "/", "Q", "t", "y", ")">>
                       /\ row.price = <<>> /\ row.qty = <<>> /\ row.subtotal = <<>>
                       /\ row.amount = 0
        /\ out.totals.subTotal = SumOfCoercible(call.items)
        /\ out.summary.subTotal = FormatMoney(SumOfCoercible(call.items))

C3_Witness ==
    /\ Rendered
    /\ Len(call.items) = 2
    /\ ~ItemCoerces(call.items[1])
    /\ call.items[2] = Trek
    /\ out.rows[1].desc = <<"T", "e", "a", " ", "(", "I", "n", "v", "a", "l", "i", "d", " ", "P", "r", "i", "c", "e", "/", "Q", "t", "y", ")">>
    /\ out.rows[2].subtotal = <<"2", ",", "0", "0", "0", ".", "0", "0">>
    /\ out.summary.subTotal = <<"2", ",", "0", "0", "0", ".", "0", "0">>

\* the captions the claim names, asset by asset
MissingCaption(a) ==
    CASE a = "logo" -> <<"[", "l", "o", "g", "o", ".", "p", "n", "g", " ", "n", "o", "t", " ", "f", "o", "u", "n", "d", "]">>
      [] a = "qrcode" -> <<"[", "q", "r", "-", "c", "o", "d", "e", ".", "p", "n", "g", " ", "n", "o", "t", " ", "f", "o", "u", "n", "d", "]">>
      [] a = "signature" -> <<"[", "s", "i", "g", "n", "a", "t", "u", "r", "e", ".", "p", "n", "g", " ", "n", "o", "t", " ", "f", "o", "u", "n", "d", "]">>

ErrorCaption(a) ==
    CASE a = "logo" -> <<"I", "m", "a", "g", "e", " ", "E", "r", "r", "o", "r", ":", " ", "l", "o", "g", "o", ".", "p", "n", "g">>
      [] a = "qrcode" -> <<"I", "m", "a", "g", "e", " ", "E", "r", "r", "o", "r", ":", " ", "q", "r", "-", "c", "o", "d", "e", ".", "p", "n", "g">>
      [] a = "signature" -> <<"I", "m", "a", "g", "e", " ", "E", "r", "r", "o", "r", ":", " ", "s", "i", "g", "n", "a", "t", "u", "r", "e", ".", "p", "n", "g">>

ImageSlots == {"logo", "qrcode", "signature"}

\* the size of each image slot, in 1/1000 inch
SlotWidth(a) == CASE a = "logo" -> 1500 [] a = "qrcode" -> 1600 [] a = "signature" -> 1000
SlotHeight(a) == CASE a = "logo" -> 1500 [] a = "qrcode" -> 1600 [] a = "signature" -> 500

\* C6: whatever the state of the three image files (present, absent,
\* undecodable) the render completes; an absent file is replaced by a centred
\* caption naming it, an undecodable one by a distinct error caption, and every
\* other region is placed where it is when all three files are present.
C6_AssetsNeverFailRender ==
    Rendered =>
        LET ref == create_invoice_pdf(call, today, AllPresent, metric)
        IN  /\ out.status = ref.status
            /\ out.status = "ok" => out.saved /\ out.regions = Regions
            /\ \A f \in DOMAIN out \ ImageSlots : out[f] = ref[f]
            /\ \A a \in ImageSlots :
                  out.status = "ok" =>
                      CASE assets[a] = "present" ->
                              out[a].kind = "image" /\ out[a] = ref[a]
                        [] assets[a] = "absent" ->
                              /\ out[a].kind = "missing"
                              /\ out[a].caption = MissingCaption(a)
                        [] assets[a] = "corrupt" ->
                              /\ out[a].kind = "error"
                              /\ out[a].caption = ErrorCaption(a)
            /\ \A a \in ImageSlots :
                  out.status = "ok" /\ assets[a] # "present" =>
                      /\ out[a].x = ref[a].x + SlotWidth(a) \div 2
                      /\ out[a].y = ref[a].y + SlotHeight(a) \div 2
            /\ assets["qrcode"] = "absent" /\ assets["signature"] = "corrupt" =>
                  out.qrcode.caption # out.signature.caption

C6_Witness ==
    /\ Rendered
    /\ assets = [logo |-> "absent", qrcode |-> "corrupt", signature |-> "absent"]
    /\ out.status = "ok" /\ out.saved
    /\ out.logo.kind = "missing" /\ out.qrcode.kind = "error"
    /\ out.signature.caption = <<"[", "s", "i", "g", "n", "a", "t", "u", "r", "e", ".", "p", "n", "g", " ", "n", "o", "t", " ", "f", "o", "u", "n", "d", "]">>

WithoutDateTexts(doc) ==
    [doc EXCEPT !.invDate = <<>>, !.topLine = <<>>, !.footer = <<>>]

AddressLineCount(d) ==
    IF Truthy(Get(d, "client_address", None))
    THEN Cardinality({i \in 1..Len(SplitLines(d.client_address)) :
                         SplitLines(d.client_address)[i] # <<>>})
    ELSE 0

\* C9: in the party block exactly the lines of the client address are drawn
\* indented: the name, Phone:, Email: and Address: lines have no indent and
\* every non-empty address line is indented, whatever the texts are.
C9_OnlyAddressLinesIndented ==
    Rendered /\ out.status = "ok" =>
        LET n == AddressLineCount(call)
            P == out.party
        IN  \A k \in 1..Len(P) :
                P[k].leftIndent = IF k > Len(P) - n THEN 300 ELSE 0

RECURSIVE SumHeights(_)
SumHeights(P) == IF P = <<>> THEN 0 ELSE Head(P).height + SumHeights(Tail(P))

\* C10: the table top is min(leftCursor, rightCursor) - 0.3in, the cursors
\* being the ends of the header's two columns, so the table never starts above
\* the end of either column; the summary and the terms both start at
\* tableTop - tableHeight - 0.3in; the signature base is
\* min(summaryBottom, bankDetailsBottom) - 0.2in.
C10_TableBelowBothColumns ==
    Rendered /\ out.status = "ok" =>
        LET top == 11693 - 500 - 400
            leftCursor == top - 1500 - 300 - (metric.static + 100)
                          - (metric.static + 200) - (metric.static + 100)
                          - SumHeights(out.party)
            rightCursor == top - (400 + metric.title + 150) - 200 - 200 - 300
                           - (metric.upi + 100) - (1600 + 200)
        IN  /\ out.yLeft = leftCursor
            /\ out.yRight = rightCursor
            /\ out.tableTop = (IF leftCursor < rightCursor THEN leftCursor
                               ELSE rightCursor) - 300
            /\ out.tableTop <= leftCursor /\ out.tableTop <= rightCursor
            /\ out.summaryStart = out.tableTop - out.tableHeight - 300
            /\ out.termsStart = out.tableTop - out.tableHeight - 300
            /\ out.summaryBottom = out.summaryStart - 4 * 250 - 400
            /\ out.sigBase = (IF out.summaryBottom < out.bankBottom
                              THEN out.summaryBottom ELSE out.bankBottom) - 200

C10_Witness ==
    /\ Rendered /\ out.status = "ok"
    /\ Len(out.party) >= 4
    /\ out.yLeft < out.yRight
    /\ out.tableTop = out.yLeft - 300
    /\ out.sigBase = out.bankBottom - 200

-----------------------------------------------------------------------------
(* Claims about the order of the canvas operations *)

\* the sections of the drawing logic, in the order of the source (the section
\* comments of lines 98, 99, 124, 128, 138, 152, 159, 164, 171, 180, 184, 187)
Sections == <<"page", "header", "company", "party", "table", "summary", "terms",
              "contact", "bank", "signature", "footer", "save">>

SectionIndex(r) == CHOOSE i \in 1..Len(Sections) : Sections[i] = r

Earlier(r, q) == SectionIndex(r) < SectionIndex(q)

\* the flowables the program wraps or draws
Flowables(prog) ==
    {prog[i].el : i \in {j \in 1..Len(prog) : prog[j].op \in {"wrap", "draw"}}}

\* the section of the code in which a flowable is wrapped or drawn
RegionOf(prog, e) ==
    LET i == CHOOSE j \in 1..Len(prog) :
                 prog[j].op \in {"wrap", "draw"} /\ prog[j].el = e
    IN  prog[i].region

\* the flowables whose height the program takes off cursor c
Feeders(prog, c) ==
    UNION {prog[i].els : i \in {j \in 1..Len(prog) :
                                   prog[j].op = "assign" /\ prog[j].cur = c}}

\* the program lowers some cursor by the height of e
HasUpdate(prog, e) ==
    \E i \in 1..Len(prog) : prog[i].op = "assign" /\ e \in prog[i].els

\* the placement of e is over: measured, drawn, and its cursor lowered if it has one
Finished(cv, prog, e) ==
    /\ e \in DOMAIN cv.height
    /\ e \in DOMAIN cv.drawn
    /\ HasUpdate(prog, e) => e \in cv.placed

\* the cursors a statement reads
Reads(s) ==
    IF s.op = "assign" THEN s.src ELSE IF s.op = "draw" THEN {s.cur} ELSE {}

\* statement s reads no cursor that a placement of an earlier section has
\* still to lower, nor one written by an earlier section that has a placement
\* still open
ReadsAfterPlacements(cv, prog, s) ==
    \A c \in Reads(s) :
        /\ \A e \in Feeders(prog, c) :
              Earlier(RegionOf(prog, e), s.region) => Finished(cv, prog, e)
        /\ \A r \in Get(cv.writers, c, {}) :
              Earlier(r, s.region) =>
                  \A e \in Flowables(prog) :
                      RegionOf(prog, e) = r => Finished(cv, prog, e)

\* what holds of the canvas at every moment of a call
OrderSoFar ==
    /\ \A e \in DOMAIN canvas.drawn : e \in DOMAIN canvas.height
    /\ \A e \in canvas.placed : e \in DOMAIN canvas.drawn
    /\ canvas.status = "done" =>
          \A e \in Flowables(canvas.prog) : Finished(canvas, canvas.prog, e)

\* what holds of every statement the call runs
OrderOfStep ==
    (canvas.status = "running" /\ canvas' # canvas) =>
        LET prog == canvas.prog
            s == prog[canvas.pc]
        IN  /\ s.op = "draw" => s.el \in DOMAIN canvas.height
            /\ s.op = "assign" =>
                  \A e \in s.els :
                      /\ e \in DOMAIN canvas.height
                      /\ e \in DOMAIN canvas.drawn
                      /\ \A c \in s.src :
                            canvas'.cur[s.cur] <= canvas.cur[c] - canvas.height[e]
            /\ \A c \in DOMAIN canvas.cur : canvas'.cur[c] <= canvas.cur[c]
            /\ ReadsAfterPlacements(canvas, prog, s)

\* the cursors and positions the statements arrive at are those of the page
\* create_invoice_pdf returns
CanvasAgreesWithPage ==
    /\ canvas.status = "raised" => out.status = "raised"
    /\ canvas.status = "done" =>
          /\ out.status = "ok"
          /\ out.yLeft = canvas.cur["y_pos_left"]
          /\ out.yRight = canvas.cur["y_pos_right"]
          /\ out.tableTop = canvas.cur["table_start_y"]
          /\ out.tableHeight = canvas.height[<<"table", 1>>]
          /\ out.tableTop - out.tableHeight = canvas.drawn[<<"table", 1>>]
          /\ out.summaryStart = canvas.cur["summary_y_start"]
          /\ out.summaryBottom = canvas.cur["summary_bottom_y"]
          /\ out.bankBottom = canvas.cur["bank_details_bottom_y"]
          /\ out.sigBase = canvas.cur["sig_base_y"]
          /\ {out.party[i].y : i \in 1..Len(out.party)}
               = {canvas.drawn[e] : e \in {f \in DOMAIN canvas.drawn : f[1] = "party"}}

\* C11: every paragraph and the table is measured (wrapOn) before it is drawn
\* (drawOn) and drawn before its cursor is lowered; the assignment that follows
\* a flowable leaves the cursor at least the measured height below the cursor
\* it was placed from; no cursor ever goes up during a call; and a statement
\* of a later section reads a cursor only when every placement that lowers it
\* is over.
C11_WrapDrawThenAdvance == []OrderSoFar /\ [][OrderOfStep]_vars

\* a call that ran to c.save() with a six-line party block of wrapped lines,
\* the left column ending below the right one and the table hung from it, and
\* contact rows whose value is higher than the label
C11_Witness ==
    /\ canvas.status = "done"
    /\ <<"party", 6>> \in canvas.placed
    /\ canvas.height[<<"party", 6>>] > 153
    /\ canvas.cur["y_pos_left"] < canvas.cur["y_pos_right"]
    /\ canvas.cur["table_start_y"] = canvas.cur["y_pos_left"] - (3 * inch) \div 10
    /\ canvas.height[<<"contact_value", 1>>] > canvas.height[<<"contact_label", 1>>]
    /\ canvas.cur["bank_details_bottom_y"] < canvas.cur["terms_y"]
    /\ CanvasAgreesWithPage

====
